---- MODULE Spec2Model ----
(***************************************************************************)
(* Model of terraform-provider-st-gcp:                                     *)
(*   - the data source st-gcp_load_balancer_backend_services               *)
(*     (LbBackendServicesDataSource.Read / runBackendServices), and        *)
(*   - the resource st-gcp_acme_eab (Create / Read / Update / Delete and   *)
(*     createEabCred).                                                     *)
(* Strings whose characters matter (descriptions, tag keys and values,     *)
(* error messages) are sequences of one-character strings; byte strings    *)
(* (key ids, secrets) are sequences of byte values; base64 text is a       *)
(* sequence of alphabet indices 0..63 with 64 for the padding '='.         *)
(***************************************************************************)
EXTENDS Integers, Sequences, FiniteSets, TLC

VARIABLES
    \* ---- data source: LbBackendServicesDataSource.Read ----
    scanPc,       \* "idle" | "scanning" (inside responseByList.Pages)
    plan,         \* the configuration of the running Read: [Name, Tags, ClientConfig]
    delivered,    \* the records of the pages the listing has delivered, in order
    visited,      \* the records the page callback's loop has reached, in order
    items,        \* state.Items accumulated by the page callback
    scanResult,   \* outcome of the last Read: "none" | "ok" | "apiError" | "panic"
    dsState,      \* the data source state: [set, Name, Tags, Items]
    dsProject,    \* the field d.project of the data source instance
    dsClient,     \* the field d.client of the data source instance
    dsDiags,      \* resp.Diagnostics of the last data source Read
    \* ---- resource: acmeEabResource ----
    pc,           \* "idle" | "attempting" (Post in flight) | "sleeping" (backoff timer)
    state,        \* the stored acmeEabState: [set, KeyID, Name, HmacBase64, CreateAt]
    old,          \* createEabCred's old argument after line 181: [set, KeyID, ...]
    creds,        \* the kind of r.client.credentialsJSON the last invocation was given
    postDataRead, \* TRUE once the shared bytes.Reader postData has been drained
    requests,     \* bodies of the requests posted by the running invocation
    backoffSteps, \* NextBackOff calls made by backoff.Retry in this invocation
    verdicts,     \* classifier verdicts of this invocation: <<message, verdict>>
    lastResp,     \* the *http.Response variable resp of createEabCred
    err,          \* the error variable err the last Post assigned: [set, msg]
    result,       \* outcome of the last createEabCred call
    diags,        \* diagnostics of the last handler response
    lastOp,       \* the last resource handler called
    cancelled     \* TRUE once the caller's ctx has been cancelled

scanVars == <<scanPc, plan, delivered, visited, items, scanResult, dsState,
              dsProject, dsClient, dsDiags>>
eabVars  == <<pc, state, old, creds, postDataRead, requests, backoffSteps, verdicts,
              lastResp, err, result, diags, lastOp, cancelled>>
vars     == <<scanPc, plan, delivered, visited, items, scanResult, dsState,
              dsProject, dsClient, dsDiags,
              pc, state, old, creds, postDataRead, requests, backoffSteps, verdicts,
              lastResp, err, result, diags, lastOp, cancelled>>

\* Values of the plugin framework's types (types.String, types.Map): null,
\* unknown or known; z is the zero value a null or unknown one carries.
TfNull(z)    == [st |-> "null", v |-> z]
TfUnknown(z) == [st |-> "unknown", v |-> z]
TfKnown(x)   == [st |-> "known", v |-> x]
IsNull(x)    == x.st = "null"
IsUnknown(x) == x.st = "unknown"

-----------------------------------------------------------------------------
(* Bounds of the model *)

\* Records delivered by one listing, over all its pages.
MaxRecords == 3

-----------------------------------------------------------------------------
(* Strings *)

\* strings.Split(s, sep) for a one-character separator: never empty, an empty
\* s gives one empty piece.
RECURSIVE SplitFrom(_, _, _, _, _)
SplitFrom(s, sep, i, cur, acc) ==
    IF i > Len(s) THEN Append(acc, cur)
    ELSE IF s[i] = sep THEN SplitFrom(s, sep, i + 1, <<>>, Append(acc, cur))
    ELSE SplitFrom(s, sep, i + 1, Append(cur, s[i]), acc)

Split(s, sep) == SplitFrom(s, sep, 1, <<>>, <<>>)

\* strings.Contains(s, sub)
Contains(s, sub) ==
    \E i \in 1..(Len(s) - Len(sub) + 1) : SubSeq(s, i, i + Len(sub) - 1) = sub

-----------------------------------------------------------------------------
(* Data source: tags decoded from the description *)

EmptyMap == [k \in {} |-> <<>>]

MapPut(m, k, v) == [x \in (DOMAIN m) \cup {k} |-> IF x = k THEN v ELSE m[x]]

\* A decoding that stops after the first entry of the description.
DecodeEntriesFirstOnly(tags, i, slbTags) ==
    LET t == Split(tags[1], ":")
    IN  IF Len(t) < 2 THEN [panic |-> TRUE, tags |-> slbTags]
        ELSE [panic |-> FALSE, tags |-> MapPut(slbTags, t[1], t[2])]

\* The inner loop of lines 437-440: t := strings.Split(tag, ":");
\* slbTags[t[0]] = t[1].  t[1] of a one-element slice is an index out of
\* range: the Go runtime panics.
RECURSIVE DecodeEntries(_, _, _)
DecodeEntries(tags, i, slbTags) ==
    IF i > Len(tags) THEN [panic |-> FALSE, tags |-> slbTags]
    ELSE LET t == Split(tags[i], ":")
         IN  IF Len(t) < 2 THEN [panic |-> TRUE, tags |-> slbTags]
             ELSE DecodeEntries(tags, i + 1, MapPut(slbTags, t[1], t[2]))

\* Lines 432-448: slbTags and slbTagsTfType of one backend service.
\* types.MapValue over string elements returns no error diagnostic.
DecodeDescription(description) ==
    IF description = <<>>
    THEN [panic |-> FALSE, tags |-> EmptyMap, tfType |-> TfNull(EmptyMap)]
    ELSE LET d == DecodeEntries(Split(description, "|"), 1, EmptyMap)
         IN  [panic |-> d.panic, tags |-> d.tags, tfType |-> TfKnown(d.tags)]

-----------------------------------------------------------------------------
(* Data source: the filter *)

\* Line 455: the name test that skips a record.
NameMismatch(planName, name) ==
    ~(IsUnknown(planName) \/ IsNull(planName)) /\ planName.v # name

\* A tag loop that tests the presence of the keys and not their values.
TagsLoopKeysOnly(goInputMap, keysLeft, slbTags) == keysLeft \subseteq DOMAIN slbTags

\* Lines 461-470: the loop over plan.Tags.Elements() with its break; Go
\* ranges over the map in an arbitrary order, here the order CHOOSE gives.
RECURSIVE TagsLoop(_, _, _)
TagsLoop(goInputMap, keysLeft, slbTags) ==
    IF keysLeft = {} THEN TRUE
    ELSE LET inputKey == CHOOSE k \in keysLeft : TRUE
             ok == inputKey \in DOMAIN slbTags
         IN  IF ~ok \/ slbTags[inputKey] # goInputMap[inputKey]
             THEN FALSE
             ELSE TagsLoop(goInputMap, keysLeft \ {inputKey}, slbTags)

\* Lines 459-474: matched, TRUE when the tag filter is null or unknown.
TagsMatched(planTags, slbTags) ==
    IF ~(IsUnknown(planTags) \/ IsNull(planTags))
    THEN TagsLoop(planTags.v, DOMAIN planTags.v, slbTags)
    ELSE TRUE

\* A page loop that leaves the page at its first matching record.
RECURSIVE PageLoopStopsAtMatch(_, _, _, _)
PageLoopStopsAtMatch(page, i, p, acc) ==
    IF i > Len(page) THEN acc
    ELSE LET backendService == page[i]
             d == DecodeDescription(backendService.Description)
             seen == Append(acc.seen, backendService)
             serviceItem == [ID |-> backendService.Id, Tags |-> d.tfType]
         IN  IF d.panic
             THEN [panic |-> TRUE, items |-> acc.items, seen |-> seen]
             ELSE IF NameMismatch(p.Name, backendService.Name)
             THEN PageLoopStopsAtMatch(page, i + 1, p, [acc EXCEPT !.seen = seen])
             ELSE IF ~TagsMatched(p.Tags, d.tags)
             THEN PageLoopStopsAtMatch(page, i + 1, p, [acc EXCEPT !.seen = seen])
             ELSE [acc EXCEPT !.seen = seen, !.items = Append(acc.items, serviceItem)]

\* Lines 430-477: the page callback's loop over page.Items from record i on.
\* acc.items is state.Items, acc.seen the records the loop has reached.
RECURSIVE PageLoop(_, _, _, _)
PageLoop(page, i, p, acc) ==
    IF i > Len(page) THEN acc
    ELSE LET backendService == page[i]
             d == DecodeDescription(backendService.Description)
             seen == Append(acc.seen, backendService)
             serviceItem == [ID |-> backendService.Id, Tags |-> d.tfType]
         IN  IF d.panic
             THEN [panic |-> TRUE, items |-> acc.items, seen |-> seen]
             ELSE IF NameMismatch(p.Name, backendService.Name)
             THEN PageLoop(page, i + 1, p, [acc EXCEPT !.seen = seen])
             ELSE IF ~TagsMatched(p.Tags, d.tags)
             THEN PageLoop(page, i + 1, p, [acc EXCEPT !.seen = seen])
             ELSE PageLoop(page, i + 1, p,
                           [acc EXCEPT !.seen = seen,
                                       !.items = Append(acc.items, serviceItem)])

-----------------------------------------------------------------------------
(* Data source: the description format *)

\* The writer of descriptions is not part of the provider; the format is
\* the one of the documentation, TagKey1:TagValue1|TagKey2:TagValue2.
\* Encode gives the description of the tag map m with its entries in the
\* order of the keys in order.
RECURSIVE Encode(_, _)
Encode(m, order) ==
    IF order = <<>> THEN <<>>
    ELSE LET k == Head(order)
             entry == k \o <<":">> \o m[k]
         IN  IF Len(order) = 1 THEN entry
             ELSE entry \o <<"|">> \o Encode(m, Tail(order))

\* The orders in which the entries of m can be written.
Orders(m) ==
    {o \in [1..Cardinality(DOMAIN m) -> DOMAIN m] :
        \A i, j \in DOMAIN o : o[i] = o[j] => i = j}

\* All descriptions of m.
Encodings(m) == {Encode(m, o) : o \in Orders(m)}

-----------------------------------------------------------------------------
(* Data source: inputs *)

NoDsState == [set |-> FALSE, Name |-> TfNull(""), Tags |-> TfNull(EmptyMap), Items |-> <<>>]

D_None   == <<>>
D_A1     == <<"A", ":", "1">>
D_A2     == <<"A", ":", "2">>
D_A1B2   == <<"A", ":", "1", "|", "B", ":", "2">>
D_B2A1   == <<"B", ":", "2", "|", "A", ":", "1">>
D_Url    == <<"U", ":", "h", ":", "x">>
D_NoSep  == <<"A">>

K(c) == <<c>>

TagFilters ==
    { EmptyMap,
      [k \in {K("A")} |-> K("1")],
      [k \in {K("A"), K("B")} |-> IF k = K("A") THEN K("1") ELSE K("2")],
      [k \in {K("U")} |-> <<"h", ":", "x">>] }

PlanNames == {TfKnown("web"), TfNull(""), TfUnknown("")}

PlanTags == {TfKnown(f) : f \in TagFilters} \cup {TfNull(EmptyMap), TfUnknown(EmptyMap)}

\* The client_config block: absent (nil, made empty at lines 373-375) or
\* with a project and/or credentials; "" is an attribute left out.
NoClientConfig == [Project |-> "", Credentials |-> ""]

ClientConfigs ==
    [Project : {"", "p1"}, Credentials : {"", "c1", "bad"}] \ {NoClientConfig}

\* Configurations without a client_config block.
Plans == [Name : PlanNames, Tags : PlanTags, ClientConfig : {NoClientConfig}]

\* Configurations with a client_config block.
OverridePlans ==
    [Name : {TfNull(""), TfKnown("web")}, Tags : {TfNull(EmptyMap)},
     ClientConfig : ClientConfigs]

\* What Configure took from the provider: lines 353-361.
ProviderProject == "p0"
ProviderClient  == "c0"

\* googleComputeClient.NewService with option.WithCredentialsJSON: the
\* service of the credentials, or nil and an error.
NewService(credentials) ==
    IF credentials = "bad" THEN [err |-> TRUE, client |-> "nil"]
    ELSE [err |-> FALSE, client |-> credentials]

\* The backend services a listing can hold.
Services ==
    { [Name |-> "web", Description |-> D_None],
      [Name |-> "Web", Description |-> D_A1],
      [Name |-> "web", Description |-> D_A2],
      [Name |-> "web", Description |-> D_A1B2],
      [Name |-> "web", Description |-> D_B2A1],
      [Name |-> "Web", Description |-> D_Url],
      [Name |-> "web", Description |-> D_NoSep] }

\* Pages of n records; the listing gives the records consecutive ids.
RawPages(n) == [1..n -> Services]

WithIds(raw, first) ==
    [i \in 1..Len(raw) |->
        [Id |-> first + i - 1, Name |-> raw[i].Name, Description |-> raw[i].Description]]

-----------------------------------------------------------------------------
(* Data source: actions *)

\* Read, lines 364-426, for the configuration p: initClient (lines 491-510)
\* when client_config names a project or credentials, then state.Items
\* starts empty and the listing call is built from d.client and d.project.
\* The response of a data source Read starts with no state.  A nil d.client
\* makes line 426 panic.
BeginRead(p) ==
    LET project == p.ClientConfig.Project
        credentials == p.ClientConfig.Credentials
        svc == NewService(credentials)
        failed == credentials # "" /\ svc.err
        client == IF credentials # "" THEN svc.client ELSE dsClient
    IN  /\ plan' = p
        /\ dsProject' = IF project # "" THEN project ELSE dsProject
        /\ dsClient' = client
        /\ dsDiags' = IF failed THEN <<"error">> ELSE <<>>
        /\ scanPc' = IF failed \/ client = "nil" THEN "idle" ELSE "scanning"
        /\ scanResult' = IF failed THEN "clientError"
                         ELSE IF client = "nil" THEN "panic" ELSE "none"
        /\ delivered' = <<>>
        /\ visited' = <<>>
        /\ items' = <<>>
        /\ dsState' = NoDsState

\* Read of a configuration without client_config.
ReadBegin ==
    /\ scanPc = "idle"
    /\ \E p \in Plans : BeginRead(p)
    /\ UNCHANGED eabVars

\* Read of a configuration whose client_config overrides the project, the
\* credentials or both.
ReadBeginOverride ==
    /\ scanPc = "idle"
    /\ \E p \in OverridePlans : BeginRead(p)
    /\ UNCHANGED eabVars

\* One page delivered by responseByList.Pages and its callback (lines
\* 429-480).  A panic in the callback ends the provider process: nothing is
\* returned to the caller and no state is set.
ScanPage ==
    /\ scanPc = "scanning"
    /\ \E n \in 0..(MaxRecords - Len(delivered)) :
         \E raw \in RawPages(n) :
            LET page == WithIds(raw, Len(delivered) + 1)
                r == PageLoop(page, 1, plan,
                              [panic |-> FALSE, items |-> items, seen |-> visited])
            IN  /\ delivered' = delivered \o page
                /\ visited' = r.seen
                /\ items' = r.items
                /\ scanPc' = IF r.panic THEN "idle" ELSE "scanning"
                /\ scanResult' = IF r.panic THEN "panic" ELSE "none"
    /\ UNCHANGED <<plan, dsState, dsProject, dsClient, dsDiags>>
    /\ UNCHANGED eabVars

\* Pages returns an error (a page fetch fails): lines 481-487 add the
\* diagnostic, Read returns at line 410 without setting the state.
ScanListError ==
    /\ scanPc = "scanning"
    /\ scanPc' = "idle"
    /\ scanResult' = "apiError"
    /\ dsDiags' = <<"error">>
    /\ UNCHANGED <<plan, delivered, visited, items, dsState, dsProject, dsClient>>
    /\ UNCHANGED eabVars

\* The listing is exhausted: Pages returns nil, lines 413-416 set the state.
ScanFinish ==
    /\ scanPc = "scanning"
    /\ scanPc' = "idle"
    /\ scanResult' = "ok"
    /\ dsState' = [set |-> TRUE, Name |-> plan.Name, Tags |-> plan.Tags, Items |-> items]
    /\ UNCHANGED <<plan, delivered, visited, items, dsProject, dsClient, dsDiags>>
    /\ UNCHANGED eabVars

-----------------------------------------------------------------------------
(* Resource: byte strings, quoting and base64 *)

\* basetypes.StringValue.String() of a known value is fmt.Sprintf("%q", v):
\* the value between double quotes (34), with '"' and '\' (92) escaped by a
\* backslash.  The byte strings of the model are printable ASCII.
QuoteByte(b) == IF b = 34 \/ b = 92 THEN <<92, b>> ELSE <<b>>

RECURSIVE QuoteBytes(_)
QuoteBytes(s) == IF s = <<>> THEN <<>> ELSE QuoteByte(Head(s)) \o QuoteBytes(Tail(s))

\* state.KeyID.String(), state.Name.String(), state.HmacBase64.String()
StringValueString(v) == <<34>> \o QuoteBytes(v) \o <<34>>

PAD == 64

\* base64.StdEncoding.Strict().EncodeToString: three bytes give four
\* sextets, a tail of one or two bytes is padded with '='.
RECURSIVE EncodeToString(_)
EncodeToString(src) ==
    IF Len(src) = 0 THEN <<>>
    ELSE IF Len(src) = 1
    THEN <<src[1] \div 4, (src[1] % 4) * 16, PAD, PAD>>
    ELSE IF Len(src) = 2
    THEN <<src[1] \div 4, (src[1] % 4) * 16 + (src[2] \div 16), (src[2] % 16) * 4, PAD>>
    ELSE <<src[1] \div 4,
           (src[1] % 4) * 16 + (src[2] \div 16),
           (src[2] % 16) * 4 + (src[3] \div 64),
           src[3] % 64>> \o EncodeToString(SubSeq(src, 4, Len(src)))

\* The bytes of one quantum of four characters; a padded quantum gives one
\* or two bytes and its unused low bits are not checked (not Strict).
DecodeQuantum(q) ==
    IF q[3] = PAD
    THEN <<q[1] * 4 + (q[2] \div 16)>>
    ELSE IF q[4] = PAD
    THEN <<q[1] * 4 + (q[2] \div 16), (q[2] % 16) * 16 + (q[3] \div 4)>>
    ELSE <<q[1] * 4 + (q[2] \div 16), (q[2] % 16) * 16 + (q[3] \div 4), (q[3] % 4) * 64 + q[4]>>

\* A quantum is well formed when padding, if any, is at its end, and only
\* the last quantum is padded.
QuantumOk(q, last) ==
    /\ q[1] # PAD /\ q[2] # PAD
    /\ (q[3] = PAD => q[4] = PAD)
    /\ (~last => q[4] # PAD)

\* base64.StdEncoding.DecodeString
RECURSIVE DecodeString(_)
DecodeString(text) ==
    IF Len(text) = 0 THEN [err |-> FALSE, bytes |-> <<>>]
    ELSE IF Len(text) < 4 THEN [err |-> TRUE, bytes |-> <<>>]
    ELSE LET q == SubSeq(text, 1, 4)
             rest == DecodeString(SubSeq(text, 5, Len(text)))
         IN  IF ~QuantumOk(q, Len(text) = 4) \/ rest.err
             THEN [err |-> TRUE, bytes |-> <<>>]
             ELSE [err |-> FALSE, bytes |-> DecodeQuantum(q) \o rest.bytes]

-----------------------------------------------------------------------------
(* Resource: the retry classifier *)

S_timeout == <<"t", "i", "m", "e", "o", "u", "t">>
S_500     == <<" ", "5", "0", "0", " ">>
S_504     == <<" ", "5", "0", "4", " ">>
S_DNS     == <<"D", "N", "S">>

\* A classifier that has lost the "DNS" test.
ClassifyNoDNS(errMsg) ==
    IF Contains(errMsg, S_timeout) \/ Contains(errMsg, S_500) \/ Contains(errMsg, S_504)
    THEN "Retryable"
    ELSE "Permanent"

\* Lines 200-206 of requestFunc: the error is returned as it is (backoff
\* retries it) or wrapped in backoff.PermanentError.
Classify(errMsg) ==
    IF Contains(errMsg, S_timeout) \/ Contains(errMsg, S_500)
       \/ Contains(errMsg, S_504) \/ Contains(errMsg, S_DNS)
    THEN "Retryable"
    ELSE "Permanent"

-----------------------------------------------------------------------------
(* Resource: records *)

NoState == [set |-> FALSE, KeyID |-> <<>>, Name |-> <<>>, HmacBase64 |-> <<>>, CreateAt |-> 0]

NoOld == [set |-> FALSE, KeyID |-> <<>>, Name |-> <<>>, B64MacKey |-> <<>>]

NoBody == [kind |-> "none", KeyID |-> <<>>, Name |-> <<>>, B64MacKey |-> <<>>]

EmptyBody == [kind |-> "empty", KeyID |-> <<>>, Name |-> <<>>, B64MacKey |-> <<>>]

JsonBody(keyId, name, b64) == [kind |-> "json", KeyID |-> keyId, Name |-> name, B64MacKey |-> b64]

NoErr == [set |-> FALSE, msg |-> <<>>]

NoResp == [set |-> FALSE, StatusCode |-> 0, Body |-> NoBody, closed |-> FALSE]

Outcome(kind, msg) == [kind |-> kind, msg |-> msg]

\* Lines 123-127 of Update: eabData built from the stored state.
EabData(st) ==
    [set |-> TRUE,
     KeyID |-> StringValueString(st.KeyID),
     Name |-> StringValueString(st.Name),
     B64MacKey |-> StringValueString(st.HmacBase64)]

\* Line 181: old.B64MacKey is replaced by its base64 encoding.
EncodeOld(o) ==
    IF o.set THEN [o EXCEPT !.B64MacKey = EncodeToString(o.B64MacKey)] ELSE o

\* Lines 188-192: the body of the request one call of requestFunc posts.
\* postData is one bytes.Reader shared by all calls: once a request has read
\* it to its end, a later request built from it has an empty body.
PostedBody(o, drained) ==
    IF ~o.set THEN NoBody
    ELSE IF drained THEN EmptyBody
    ELSE JsonBody(o.KeyID, o.Name, o.B64MacKey)

\* Line 214, io.ReadAll(resp.Body): a body that has been closed fails the
\* read, unless it is the empty body, whose read ends at once.
ReadAll(resp) ==
    IF resp.closed /\ resp.Body.kind # "empty"
    THEN [err |-> TRUE, body |-> EmptyBody]
    ELSE [err |-> FALSE, body |-> resp.Body]

\* Lines 214-237: what createEabCred does once backoff.Retry has returned
\* nil.  Gives the outcome and the values written to *s.
AfterRetry(resp, st, now) ==
    LET read == ReadAll(resp)
        eabMacKey == DecodeString(read.body.B64MacKey)
    IN  IF read.err THEN [out |-> Outcome("errReadBody", <<>>), st |-> st]
        ELSE IF resp.StatusCode # 200 THEN [out |-> Outcome("errStatus", <<>>), st |-> st]
        ELSE IF read.body.kind # "json" THEN [out |-> Outcome("errUnmarshalResp", <<>>), st |-> st]
        ELSE IF eabMacKey.err THEN [out |-> Outcome("errBase64", <<>>), st |-> st]
        ELSE [out |-> Outcome("ok", <<>>),
              st |-> [set |-> TRUE,
                      KeyID |-> read.body.KeyID,
                      Name |-> read.body.Name,
                      HmacBase64 |-> eabMacKey.bytes,
                      CreateAt |-> now]]

-----------------------------------------------------------------------------
(* Resource: inputs *)

\* Backoff waits the policy of backoff.NewExponentialBackOff() grants before
\* NextBackOff returns Stop (its MaxElapsedTime has passed).
MaxBackoffSteps == 2

B_k1        == <<107, 49>>
B_n1        == <<110, 49>>
B_oldsecret == <<111, 108, 100, 45, 115, 101, 99, 114, 101, 116>>
B_hello     == <<104, 101, 108, 108, 111>>
B_quote     == <<97, 34>>
T_hello     == <<26, 6, 21, 44, 27, 6, 60, 64>>
T_short     == <<26, 6, 21>>
T_badpad    == <<26, 64, 21, 44>>

\* Stored states a resource instance can start from.
StoredStates ==
    { NoState,
      [set |-> TRUE, KeyID |-> B_k1, Name |-> B_n1, HmacBase64 |-> B_oldsecret, CreateAt |-> 1],
      [set |-> TRUE, KeyID |-> B_k1, Name |-> B_n1, HmacBase64 |-> B_quote, CreateAt |-> 1] }

\* r.client.credentialsJSON: a usable service-account key ("ok"); not JSON
\* ("badJSON": json.Unmarshal fails, line 166); JSON that
\* google.JWTConfigFromJSON rejects, its type not being service_account
\* ("badKey", line 171); or a service-account JSON whose private_key is not
\* a key ("badPrivateKey").  JWTConfigFromJSON only copies private_key into
\* the jwt.Config; the key is parsed when the client's token source signs
\* its first token, inside Post.
CredentialsKinds == {"ok", "badJSON", "badKey", "badPrivateKey"}

\* The error of the token source for a private_key that does not parse.
M_BadPrivateKey == <<"p", "a", "r", "s", "e", " ", "e", "r", "r", "o", "r">>

\* The state struct Create hands to createEabCred: the plan, whose computed
\* attributes are all unknown.
PlanState == [set |-> TRUE, KeyID |-> <<>>, Name |-> <<>>, HmacBase64 |-> <<>>, CreateAt |-> 0]

\* The struct s of the running invocation before line 232: the plan in
\* Create (line 94), the prior state in Update (line 116).
LocalState == IF lastOp = "Create" THEN PlanState ELSE state

M_ConnTimeout  == <<"c", "o", "n", "n", "e", "c", "t", "i", "o", "n", " ", "t", "i", "m", "e", "o", "u", "t">>
M_InvalidGrant == <<"i", "n", "v", "a", "l", "i", "d", " ", "g", "r", "a", "n", "t">>
M_Status500    == <<"r", "e", "c", "e", "i", "v", "e", "d", " ", "s", "t", "a", "t", "u", "s", " ", "5", "0", "0", " ">>
M_Status404    == <<"r", "e", "c", "e", "i", "v", "e", "d", " ", "s", "t", "a", "t", "u", "s", " ", "4", "0", "4">>
M_Gateway      == <<"g", "o", "t", " ", "5", "0", "4", " ", "n", "o", "w">>
M_DNS          == <<"n", "o", " ", "D", "N", "S">>
M_Lower        == <<"d", "n", "s", " ", "T", "i", "m", "e", "o", "u", "t", " ", "5", "0", "0">>

Messages == {M_ConnTimeout, M_InvalidGrant, M_Status500, M_Status404, M_Gateway, M_DNS, M_Lower}

Statuses == {200, 500, 504}

Bodies ==
    { EmptyBody,
      [kind |-> "garbage", KeyID |-> <<>>, Name |-> <<>>, B64MacKey |-> <<>>],
      JsonBody(B_k1, B_n1, T_hello),
      JsonBody(B_k1, B_n1, T_short),
      JsonBody(B_k1, B_n1, T_badpad) }

Times == {2, 3}

\* What one Post returns: a transport error, with a nil response or (when a
\* redirect check fails) with the last response, already closed; or a
\* response of a completed round trip.
PostOutcomes ==
    [kind : {"err"}, msg : Messages, respNil : BOOLEAN, StatusCode : {0}, Body : {NoBody}]
    \cup
    [kind : {"resp"}, msg : {<<>>}, respNil : {FALSE}, StatusCode : Statuses, Body : Bodies]

-----------------------------------------------------------------------------
(* Resource: actions *)

\* createEabCred lines 165-192 up to the first Post being in flight, or its
\* early return.  o is the old argument (NoOld for Create).
StartProvision(op, o, credKind) ==
    /\ lastOp' = op
    /\ cancelled' = FALSE
    /\ backoffSteps' = 0
    /\ verdicts' = <<>>
    /\ lastResp' = NoResp
    /\ creds' = credKind
    /\ UNCHANGED state
    /\ IF credKind = "ok"
       THEN /\ old' = EncodeOld(o)
            /\ requests' = <<PostedBody(EncodeOld(o), FALSE)>>
            /\ postDataRead' = o.set
            /\ err' = NoErr
            /\ pc' = "attempting"
            /\ result' = Outcome("none", <<>>)
            /\ diags' = <<>>
       ELSE IF credKind = "badPrivateKey"
       THEN \* lines 165-184 pass; the first Post (line 189 or 191) fails in
            \* the token source before anything is sent and returns a nil
            \* response with the error; line 193 panics
            /\ old' = EncodeOld(o)
            /\ requests' = <<>>
            /\ postDataRead' = FALSE
            /\ err' = [set |-> TRUE, msg |-> M_BadPrivateKey]
            /\ pc' = "idle"
            /\ result' = Outcome("panic", <<>>)
            /\ diags' = <<>>
       ELSE /\ old' = o
            /\ err' = NoErr
            /\ requests' = <<>>
            /\ postDataRead' = FALSE
            /\ pc' = "idle"
            /\ result' = Outcome(IF credKind = "badJSON" THEN "errUnmarshalCred" ELSE "errJwt", <<>>)
            /\ diags' = <<"error">>

\* Create, lines 92-101.
CreateBegin ==
    /\ pc = "idle"
    /\ \E credKind \in CredentialsKinds : StartProvision("Create", NoOld, credKind)
    /\ UNCHANGED scanVars

\* Update, lines 114-128.
UpdateBegin ==
    /\ pc = "idle"
    /\ state.set
    /\ \E credKind \in CredentialsKinds : StartProvision("Update", EabData(state), credKind)
    /\ UNCHANGED scanVars

\* A handler that stores its state struct whatever createEabCred returned.
ReturnStoresAlways(out, st) ==
    /\ pc' = "idle"
    /\ result' = out
    /\ state' = IF out.kind = "panic" THEN state ELSE st
    /\ diags' = IF out.kind \in {"ok", "panic"} THEN <<>> ELSE <<"error">>

\* The end of createEabCred and of its handler: lines 101-105, 128-132.
\* st is the state struct of the handler; it is stored only after success.
Return(out, st) ==
    /\ pc' = "idle"
    /\ result' = out
    /\ state' = IF out.kind = "ok" THEN st ELSE state
    /\ diags' = IF out.kind \in {"ok", "panic"} THEN <<>> ELSE <<"error">>

\* The Post in flight returns and requestFunc runs to its end (lines
\* 189-208), then backoff.Retry decides (line 210) and, when it returns,
\* createEabCred runs to its end (lines 211-237).
AttemptDone ==
    /\ pc = "attempting"
    /\ \E o \in PostOutcomes, now \in Times :
         IF o.kind = "err" /\ o.respNil
         THEN \* line 193 evaluates resp.Body of a nil resp: the runtime panics
              /\ lastResp' = NoResp
              /\ err' = [set |-> TRUE, msg |-> o.msg]
              /\ verdicts' = verdicts
              /\ backoffSteps' = backoffSteps
              /\ Return(Outcome("panic", <<>>), state)
         ELSE IF o.kind = "err"
         THEN /\ lastResp' = [set |-> TRUE, StatusCode |-> 0, Body |-> EmptyBody, closed |-> TRUE]
              /\ err' = [set |-> TRUE, msg |-> o.msg]
              /\ verdicts' = Append(verdicts, <<o.msg, Classify(o.msg)>>)
              /\ IF Classify(o.msg) = "Permanent"
                 THEN /\ backoffSteps' = backoffSteps
                      /\ Return(Outcome("errTransport", o.msg), LocalState)
                 ELSE IF backoffSteps >= MaxBackoffSteps
                 THEN \* NextBackOff() = Stop
                      /\ backoffSteps' = backoffSteps
                      /\ Return(Outcome("errTransport", o.msg), LocalState)
                 ELSE /\ backoffSteps' = backoffSteps + 1
                      /\ pc' = "sleeping"
                      /\ UNCHANGED <<result, state, diags>>
         ELSE LET resp == [set |-> TRUE, StatusCode |-> o.StatusCode, Body |-> o.Body,
                           closed |-> TRUE]
                  r == AfterRetry(resp, LocalState, now)
              IN  /\ lastResp' = resp
                  /\ err' = NoErr
                  /\ verdicts' = verdicts
                  /\ backoffSteps' = backoffSteps
                  /\ Return(r.out, r.st)
    /\ UNCHANGED <<old, creds, postDataRead, requests, lastOp, cancelled>>
    /\ UNCHANGED scanVars

\* The backoff timer fires and backoff.Retry calls requestFunc again: the
\* next Post is in flight (lines 188-192).
WakeAndRetry ==
    /\ pc = "sleeping"
    /\ pc' = "attempting"
    /\ requests' = Append(requests, PostedBody(old, postDataRead))
    /\ postDataRead' = old.set
    /\ UNCHANGED <<state, old, creds, backoffSteps, verdicts, lastResp, err, result, diags, lastOp, cancelled>>
    /\ UNCHANGED scanVars

\* The caller cancels ctx while createEabCred runs.  Nothing in
\* createEabCred waits on ctx: the client is built from
\* context.Background() and backoff.Retry is given no context.
Cancel ==
    /\ pc \in {"attempting", "sleeping"}
    /\ ~cancelled
    /\ cancelled' = TRUE
    /\ UNCHANGED <<pc, state, old, creds, postDataRead, requests, backoffSteps, verdicts,
                   lastResp, err, result, diags, lastOp>>
    /\ UNCHANGED scanVars

\* Read, lines 109-111.
ReadEab ==
    /\ pc = "idle"
    /\ lastOp' = "Read"
    /\ diags' = <<>>
    /\ UNCHANGED <<pc, state, old, creds, postDataRead, requests, backoffSteps, verdicts,
                   lastResp, err, result, cancelled>>
    /\ UNCHANGED scanVars

\* A Delete that drops the stored credential.
DeleteEabClears ==
    /\ pc = "idle"
    /\ lastOp' = "Delete"
    /\ diags' = <<"warning">>
    /\ state' = NoState
    /\ UNCHANGED <<pc, old, creds, postDataRead, requests, backoffSteps, verdicts,
                   lastResp, err, result, cancelled>>
    /\ UNCHANGED scanVars

\* Delete, lines 136-141.
DeleteEab ==
    /\ pc = "idle"
    /\ lastOp' = "Delete"
    /\ diags' = <<"warning">>
    /\ UNCHANGED <<pc, state, old, creds, postDataRead, requests, backoffSteps, verdicts,
                   lastResp, err, result, cancelled>>
    /\ UNCHANGED scanVars

-----------------------------------------------------------------------------
(* Specifications *)

\* The data source alone, before its first Read; the resource is not used.
InitScan ==
    /\ scanPc = "idle"
    /\ plan = [Name |-> TfNull(""), Tags |-> TfNull(EmptyMap), ClientConfig |-> NoClientConfig]
    /\ delivered = <<>>
    /\ visited = <<>>
    /\ items = <<>>
    /\ scanResult = "none"
    /\ dsState = NoDsState
    /\ dsProject = ProviderProject
    /\ dsClient = ProviderClient
    /\ dsDiags = <<>>
    /\ pc = "idle"
    /\ state = NoState
    /\ old = NoOld
    /\ creds = "ok"
    /\ postDataRead = FALSE
    /\ requests = <<>>
    /\ backoffSteps = 0
    /\ verdicts = <<>>
    /\ lastResp = NoResp
    /\ err = NoErr
    /\ result = Outcome("none", <<>>)
    /\ diags = <<>>
    /\ lastOp = "none"
    /\ cancelled = FALSE

NextScan == ReadBegin \/ ScanPage \/ ScanListError \/ ScanFinish

SpecScan == InitScan /\ [][NextScan]_vars

\* The data source with configurations that may carry a client_config block.
NextScanClient == ReadBegin \/ ReadBeginOverride \/ ScanPage \/ ScanListError \/ ScanFinish

SpecScanClient == InitScan /\ [][NextScanClient]_vars

\* The resource alone, with the state Terraform has stored for it (none, or
\* the credential of an earlier apply); the data source is not used.
InitEab ==
    /\ pc = "idle"
    /\ state \in StoredStates
    /\ old = NoOld
    /\ creds = "ok"
    /\ postDataRead = FALSE
    /\ requests = <<>>
    /\ backoffSteps = 0
    /\ verdicts = <<>>
    /\ lastResp = NoResp
    /\ err = NoErr
    /\ result = Outcome("none", <<>>)
    /\ diags = <<>>
    /\ lastOp = "none"
    /\ cancelled = FALSE
    /\ scanPc = "idle"
    /\ plan = [Name |-> TfNull(""), Tags |-> TfNull(EmptyMap), ClientConfig |-> NoClientConfig]
    /\ delivered = <<>>
    /\ visited = <<>>
    /\ items = <<>>
    /\ scanResult = "none"
    /\ dsState = NoDsState
    /\ dsProject = ProviderProject
    /\ dsClient = ProviderClient
    /\ dsDiags = <<>>

NextEab == CreateBegin \/ UpdateBegin \/ AttemptDone \/ WakeAndRetry \/ Cancel
           \/ ReadEab \/ DeleteEab

SpecEab == InitEab /\ [][NextEab]_vars

\* The resource when every Post in flight returns and every backoff timer
\* fires.
SpecEabFair == SpecEab /\ WF_vars(AttemptDone) /\ WF_vars(WakeAndRetry)

-----------------------------------------------------------------------------
(* Data source: properties *)

\* The ids of the records in state.Items; the id of a record is its position
\* in the listing.
ItemIds == {items[j].ID : j \in 1..Len(items)}

NameOk(p, r) == IsNull(p.Name) \/ IsUnknown(p.Name) \/ p.Name.v = r.Name

TagsOk(p, tags) ==
    \/ IsNull(p.Tags) \/ IsUnknown(p.Tags)
    \/ \A k \in DOMAIN p.Tags.v : k \in DOMAIN tags /\ tags[k] = p.Tags.v[k]

\* C1: in a scan that has not crashed, a visited record is in the result iff
\* the name filter is absent or equals its name and the tag filter is absent
\* or each of its keys is in the record's decoded tags with an equal value;
\* an empty tag filter excludes nothing, and a record without description
\* is kept only under an absent or empty tag filter.
C1_FilterMatches ==
    scanResult # "panic" =>
        \A i \in 1..Len(visited) :
            LET r == visited[i]
                tags == DecodeDescription(r.Description).tags
            IN  /\ (r.Id \in ItemIds) <=> (NameOk(plan, r) /\ TagsOk(plan, tags))
                /\ (plan.Tags = TfKnown(EmptyMap) /\ NameOk(plan, r)) => r.Id \in ItemIds
                /\ (r.Description = <<>> /\ r.Id \in ItemIds)
                       => (plan.Tags.st # "known" \/ plan.Tags.v = EmptyMap)

\* A finished scan under a name filter and a non-empty tag filter that kept
\* one record and rejected another, and one under an empty tag filter that
\* kept a record without description.
C1_Witness ==
    /\ scanResult = "ok"
    /\ plan.Name.st = "known"
    /\ plan.Tags.st = "known" /\ plan.Tags.v # EmptyMap
    /\ Len(items) = 1 /\ Len(visited) = 3
    /\ dsState.Items = items

Entries(description) == Split(description, "|")

FirstColon(e) == CHOOSE i \in 1..Len(e) : e[i] = ":" /\ \A j \in 1..(i - 1) : e[j] # ":"

\* C2: every entry of a kept record's description decodes to the key before
\* its first ':' and the value made of everything after that ':'.
C2_ValueAfterFirstColon ==
    \A j \in 1..Len(items) :
        LET r == visited[items[j].ID]
            es == Entries(r.Description)
        IN  r.Description # <<>> =>
                \A n \in 1..Len(es) :
                    Contains(es[n], <<":">>) =>
                        LET c == FirstColon(es[n])
                            key == SubSeq(es[n], 1, c - 1)
                        IN  /\ key \in DOMAIN items[j].Tags.v
                            /\ items[j].Tags.v[key] = SubSeq(es[n], c + 1, Len(es[n]))

Malformed(description) ==
    /\ description # <<>>
    /\ \E n \in 1..Len(Entries(description)) : ~Contains(Entries(description)[n], <<":">>)

\* C3: a scan that met a record whose description has an entry without ':'
\* ends with a format error returned to the caller and sets no state.
C3_FormatErrorReturned ==
    (scanPc = "idle" /\ \E i \in 1..Len(visited) : Malformed(visited[i].Description))
        => (scanResult = "formatError" /\ ~dsState.set)

-----------------------------------------------------------------------------
(* Resource: properties *)

InProvision == pc \in {"attempting", "sleeping"}

\* C4: a request is retried only after a transport error classified
\* Retryable, and an attempt that ends in a transport error classified
\* Permanent ends the invocation at once with that error: no backoff sleep
\* and no further request.
C4_RetryOnlyRetryable ==
    [][ /\ (pc = "sleeping" /\ Len(requests') > Len(requests))
            => (err.set /\ Classify(err.msg) = "Retryable")
        /\ (pc = "attempting" /\ err'.set /\ Classify(err'.msg) = "Permanent")
            => /\ pc' = "idle"
               /\ result' = Outcome("errTransport", err'.msg)
               /\ requests' = requests ]_vars

\* C5: each verdict of the classifier is Retryable iff the message contains
\* "timeout", " 500 ", " 504 " or "DNS" as written, and Permanent otherwise;
\* "connection timeout" and "received status 500 " are Retryable,
\* "invalid grant" and "received status 404" are Permanent.
C5_Classification ==
    \A i \in 1..Len(verdicts) :
        LET m == verdicts[i][1]
            v == verdicts[i][2]
        IN  /\ v \in {"Retryable", "Permanent"}
            /\ (v = "Retryable") <=>
                   \E sub \in { <<"t", "i", "m", "e", "o", "u", "t">>,
                                <<" ", "5", "0", "0", " ">>,
                                <<" ", "5", "0", "4", " ">>,
                                <<"D", "N", "S">> } :
                       \E k \in 1..Len(m) :
                           /\ k + Len(sub) - 1 <= Len(m)
                           /\ \A n \in 1..Len(sub) : m[k + n - 1] = sub[n]
            /\ (m \in {M_ConnTimeout, M_Status500}) => v = "Retryable"
            /\ (m \in {M_InvalidGrant, M_Status404}) => v = "Permanent"

\* An invocation that classified "no DNS" as Retryable, slept, and then
\* classified "received status 404" as Permanent.
C5_Witness ==
    /\ Len(verdicts) = 2
    /\ verdicts[1] = <<M_DNS, "Retryable">>
    /\ verdicts[2] = <<M_Status404, "Permanent">>
    /\ result = Outcome("errTransport", M_Status404)

\* C6: an attempt whose round trip completes with a status other than 200
\* ends the invocation with the response error (the one that carries url and
\* body) and no further request is issued.
C6_Non200Terminal ==
    [][ (pc = "attempting" /\ ~err'.set /\ lastResp'.set /\ lastResp'.StatusCode # 200)
            => /\ pc' = "idle"
               /\ result'.kind = "errStatus"
               /\ requests' = requests ]_vars

\* C7: the first request of an Update carries the stored KeyID and Name as
\* they are and a b64MacKey that base64-decodes to the stored secret; the
\* request of a Create has no body.
C7_RotateBodyCarriesPrior ==
    InProvision =>
        /\ lastOp = "Create" => requests[1] = NoBody
        /\ lastOp = "Update" =>
              /\ requests[1].kind = "json"
              /\ requests[1].KeyID = state.KeyID
              /\ requests[1].Name = state.Name
              /\ ~DecodeString(requests[1].B64MacKey).err
              /\ DecodeString(requests[1].B64MacKey).bytes = state.HmacBase64

\* C8: an attempt answered with status 200 and a JSON body whose b64MacKey
\* is valid base64 ends the invocation with success and stores KeyID, Name
\* and the decoded secret; "aGVsbG8=" stores "hello".
C8_SuccessStoresDecoded ==
    [][ (/\ pc = "attempting" /\ ~err'.set /\ lastResp'.set
         /\ lastResp'.StatusCode = 200
         /\ lastResp'.Body.kind = "json"
         /\ ~DecodeString(lastResp'.Body.B64MacKey).err)
            => /\ pc' = "idle"
               /\ result'.kind = "ok"
               /\ state'.set
               /\ state'.KeyID = lastResp'.Body.KeyID
               /\ state'.Name = lastResp'.Body.Name
               /\ state'.HmacBase64 = DecodeString(lastResp'.Body.B64MacKey).bytes
               /\ (lastResp'.Body.B64MacKey = T_hello => state'.HmacBase64 = B_hello) ]_vars

\* C9: a call of Read or Delete issues no request and leaves the stored
\* credential as it is; Delete adds a warning and nothing else.
C9_ReadDeleteNoOp ==
    [][ (pc = "idle" /\ lastOp' \in {"Read", "Delete"})
            => /\ state' = state
               /\ requests' = requests
               /\ pc' = "idle"
               /\ result' = result
               /\ diags' = IF lastOp' = "Delete" THEN <<"warning">> ELSE <<>> ]_vars

\* Delete has run on a resource that holds a credential, and it still does.
C9_Witness ==
    /\ lastOp = "Delete"
    /\ state.set
    /\ diags = <<"warning">>

\* C10: once ctx is cancelled while a request is in flight or the backoff
\* timer runs, the next step of the invocation ends it: no backoff sleep is
\* entered or finished and no further request is issued.
C10_CancelAborts ==
    [][ (cancelled /\ InProvision) => (pc' = "idle" /\ requests' = requests) ]_vars

\* C14: a Read without client_config lists with the project and the client
\* the provider configured, whatever client_config earlier Reads of the
\* same data source instance had.
C14_NoCarriedClient ==
    (plan.ClientConfig = NoClientConfig /\ scanResult # "clientError")
        => (dsProject = ProviderProject /\ dsClient = ProviderClient)

\* Tag maps whose keys and values have neither "|" nor ":".
CleanMaps ==
    { EmptyMap,
      [k \in {K("A")} |-> K("1")],
      [k \in {K("A")} |-> K("2")],
      [k \in {K("A"), K("B")} |-> IF k = K("A") THEN K("1") ELSE K("2")] }

\* The delivered record an item was made from.
RecordOf(item) == delivered[item.ID]

\* C16: a record whose description is Encode(m) for a tag map m without "|"
\* and ":" in keys and values, its entries in any order, is decoded to
\* exactly m and does not crash the scan; the empty map is the empty
\* description and is decoded to the empty map.
C16_DecodeOfEncode ==
    /\ Encodings(EmptyMap) = {<<>>}
    /\ \A m \in CleanMaps :
         /\ \A j \in 1..Len(items) :
               RecordOf(items[j]).Description \in Encodings(m) => items[j].Tags.v = m
         /\ (scanResult = "panic" /\ visited # <<>>)
               => visited[Len(visited)].Description \notin Encodings(m)

\* A scan kept a record described as "B:2|A:1" with the tags A=1, B=2 and a
\* record without description with no tags.
C16_Witness ==
    \E i, j \in 1..Len(items) :
        /\ RecordOf(items[i]).Description = D_B2A1
        /\ D_B2A1 \in Encodings(items[i].Tags.v)
        /\ DOMAIN items[i].Tags.v = {K("A"), K("B")}
        /\ RecordOf(items[j]).Description = <<>>
        /\ items[j].Tags.v = EmptyMap

\* The items a scan of the records recs under the configuration p is to
\* return: one per matching record, in the order of recs.
RECURSIVE ExpectedItems(_, _)
ExpectedItems(recs, p) ==
    IF recs = <<>> THEN <<>>
    ELSE LET r == Head(recs)
             d == DecodeDescription(r.Description)
         IN  (IF NameOk(p, r) /\ TagsOk(p, d.tags)
              THEN <<[ID |-> r.Id, Tags |-> d.tfType]>>
              ELSE <<>>) \o ExpectedItems(Tail(recs), p)

\* C11: a scan that has not crashed has reached every record of every page
\* the listing delivered, whatever matched before, and its items are the
\* matching records in the order of delivery, each once; a finished scan
\* stores exactly these.
C11_VisitsAllInOrder ==
    /\ scanResult # "panic"
          => (visited = delivered /\ items = ExpectedItems(delivered, plan))
    /\ scanResult = "ok" => dsState.Items = ExpectedItems(delivered, plan)

\* A finished scan of three records kept the first and the third and
\* rejected the second.
C11_Witness ==
    /\ scanResult = "ok"
    /\ Len(delivered) = 3
    /\ Len(dsState.Items) = 2
    /\ dsState.Items[1].ID = 1
    /\ dsState.Items[2].ID = 3

-----------------------------------------------------------------------------
(* Resource: properties, continued *)

\* The round trip of the attempt in flight completes with status 200 and a
\* credential whose b64MacKey is valid base64.
AnsweredWithCredential ==
    /\ pc = "attempting"
    /\ ~err'.set
    /\ lastResp'.set
    /\ lastResp'.StatusCode = 200
    /\ lastResp'.Body.kind = "json"
    /\ ~DecodeString(lastResp'.Body.B64MacKey).err

\* C12: an Update that the service answers with a credential replaces the
\* stored record as a whole: KeyID, Name, Secret and CreatedAt are those of
\* the answer and of the call, none is kept from the prior record.
C12_UpdateReplacesWhole ==
    [][ (lastOp = "Update" /\ AnsweredWithCredential)
            => state' = [set |-> TRUE,
                         KeyID |-> lastResp'.Body.KeyID,
                         Name |-> lastResp'.Body.Name,
                         HmacBase64 |-> DecodeString(lastResp'.Body.B64MacKey).bytes,
                         CreateAt |-> state'.CreateAt]
               /\ state'.CreateAt \in Times ]_vars

\* The outcomes createEabCred returns: success, a failure that is not
\* retried, or the last transport error once the backoff policy stops.
ReturnedKinds ==
    {"ok", "errUnmarshalCred", "errJwt", "errTransport", "errReadBody", "errStatus",
     "errUnmarshalResp", "errBase64"}

\* C13: an invocation whose requests return and whose backoff timers fire
\* ends, and it ends by returning: with success, with a failure that is not
\* retried, or with the last transport error once the backoff policy stops.
C13_EndsByReturning ==
    InProvision ~> (pc = "idle" /\ result.kind \in ReturnedKinds)

\* An invocation whose requests return and whose timers fire ends.
C13_Ends == InProvision ~> pc = "idle"

\* C15: an invocation given credentials that are not JSON or cannot sign
\* ends with the configuration error, has issued no request and entered no
\* backoff wait.
C15_ConfigErrorNoRequest ==
    (creds # "ok" /\ lastOp \in {"Create", "Update"})
        => /\ pc = "idle"
           /\ result.kind \in {"errUnmarshalCred", "errJwt"}
           /\ requests = <<>>
           /\ backoffSteps = 0

\* A step that ends an invocation of createEabCred.
ProvisionEnds ==
    \/ pc = "attempting" /\ pc' = "idle"
    \/ pc = "idle" /\ pc' = "idle" /\ lastOp' \in {"Create", "Update"} /\ creds' # "ok"

\* C17: an invocation that ends without success leaves the stored record as
\* it was: nothing of the handler's state struct is stored.
C17_FailureKeepsState ==
    [][ (ProvisionEnds /\ result'.kind # "ok") => state' = state ]_vars

\* A Create on an instance that holds a credential has failed at the JSON
\* decoding of a 200 answer, and the credential is still held.
C17_Witness ==
    /\ pc = "idle"
    /\ lastOp = "Create"
    /\ result.kind = "errUnmarshalResp"
    /\ state.set
    /\ state.KeyID = B_k1

\* C18: every request of an Update, the retries included, carries the body
\* of the first one, the full rotate body.
C18_RetrySendsSameBody ==
    (lastOp = "Update" /\ InProvision)
        => \A i \in 1..Len(requests) :
              requests[i] = requests[1] /\ requests[i].kind = "json"

\* C19: the body of a completed round trip is open when line 214 reads it,
\* and the read gives the whole body.
C19_ReadBeforeClose ==
    [][ (pc = "attempting" /\ ~err'.set /\ lastResp'.set)
            => /\ ~lastResp'.closed
               /\ ~ReadAll(lastResp').err
               /\ ReadAll(lastResp').body = lastResp'.Body ]_vars

\* C20: an attempt that ends with a transport error and no response is
\* classified and returns its error: the invocation waits for a retry or
\* ends with the transport error, and does not crash.
C20_NilResponseNoCrash ==
    [][ (pc' # "attempting" /\ err'.set /\ ~lastResp'.set /\ err' # err)
            => /\ result'.kind # "panic"
               /\ \/ pc' = "sleeping"
                  \/ pc' = "idle" /\ result' = Outcome("errTransport", err'.msg) ]_vars

-----------------------------------------------------------------------------
(* Data source: properties, continued *)

\* C21: a Read whose scan was aborted, by an error of the listing or by a
\* description that cannot be turned into tags, has recorded an error
\* diagnostic and has set no state: the items of earlier pages are not
\* given to the caller.
C21_AbortExposesNothing ==
    (scanPc = "idle" /\ scanResult \in {"apiError", "panic"})
        => (dsDiags = <<"error">> /\ ~dsState.set)

\* A Read whose scan was aborted has set no state.
C21_NoStateAfterAbort ==
    (scanPc = "idle" /\ scanResult \in {"apiError", "panic"}) => ~dsState.set

\* A Read whose scan ended with an error of the listing has recorded an
\* error diagnostic.
C21_ListErrorReported ==
    (scanPc = "idle" /\ scanResult = "apiError") => dsDiags = <<"error">>

====
